---------------------------- MODULE Spec2Model ----------------------------
(***************************************************************************)
(* The blink controllers (PinCycle) of the HTTP-controlled GPIO program    *)
(* and the handler of "/" that starts and stops them.                      *)
(*                                                                         *)
(* A PinCycle has a pin and a Running flag.  Cycle() spawns a goroutine    *)
(* and returns; the goroutine sets Running, then loops: test Running,      *)
(* write the pin, sleep, flip the level.  Stop() clears Running.  The      *)
(* flag is shared without synchronisation, so every access to it is a      *)
(* step of its own here and the steps of the caller and of every goroutine *)
(* interleave freely.                                                      *)
(***************************************************************************)
EXTENDS Naturals, Sequences, FiniteSets, Bags

VARIABLES
    Running,    \* Running[c]: the field PinCycle.Running of controller c
    loops,      \* loops[c]: the bag of live goroutines spawned by c.Cycle()
    pin,        \* pin[c]: the level last commanded on c.Pin ("None": never)
    lastCall,   \* lastCall[c]: the last method called on c (history)
    last,       \* the last call made on any controller (history)
    reqs,       \* reqs[r]: the handler goroutine serving request slot r
    served,     \* number of requests accepted so far
    steps,      \* number of goroutine steps taken under SpecHttp
    run,        \* run[c]: the writes on c.Pin since c became running (history)
    main,       \* the main goroutine: program variant, position, Init result
    board,      \* the levels commanded on rpi.P1_15, in order
    sig,        \* signal.Notify: registration, channel c, signal received
    dur         \* the duration of the last sleep, in ms, when it is tracked

vars ==
    <<Running, loops, pin, lastCall, last, reqs, served, steps, run,
      main, board, sig, dur>>

\* What the controllers and the handler leave alone.
rest == <<main, board, sig, dur>>

---------------------------------------------------------------------------
(* Bounds *)

\* Direct callers spawn no goroutine while MaxLive goroutines are alive.
MaxLive == 2
\* Total number of requests the server accepts.
MaxRequests == 2
\* Total number of goroutine steps scheduled while requests are served.
MaxLoopSteps == 4
\* Total number of signals sent to the process.
MaxSignals == 2

---------------------------------------------------------------------------
(* The registry: p14 .. p25, in the order the handler calls them *)

Registry == <<"p14", "p15", "p18", "p23", "p24", "p25">>

Controllers == {Registry[i] : i \in 1..Len(Registry)}

\* A wiring in which p15 is given the pin of p14.
WireShared ==
    [c \in Controllers |->
        CASE c = "p14" -> "SO_51" [] c = "p15" -> "SO_51"
          [] c = "p18" -> "SO_63" [] c = "p23" -> "SO_77"
          [] c = "p24" -> "SO_81" [] OTHER     -> "SO_83"]

\* The Pin field each PinCycle is constructed with.
Wire ==
    [c \in Controllers |->
        CASE c = "p14" -> "SO_51" [] c = "p15" -> "SO_53"
          [] c = "p18" -> "SO_63" [] c = "p23" -> "SO_77"
          [] c = "p24" -> "SO_81" [] OTHER     -> "SO_83"]

\* The header pins in use, and what has been commanded on header pin p:
\* the levels commanded through the controllers that hold p.
HeaderPins == {Wire[c] : c \in Controllers}
Header(p) == {pin[c] : c \in {d \in Controllers : Wire[d] = p}}

\* The controllers on which Spec makes direct calls; the others are only
\* observed.
Driven == {"p14", "p15"}

Levels == {"High", "Low"}

\* A goroutine of Cycle: pc is the statement it is about to execute,
\* state its local variable of that name.
\*   "start": f.Running = true; state := gpio.High
\*   "check": for f.Running
\*   "out"  : f.Pin.Out(state)
\*   "sleep": time.Sleep(...); flip the state
\* err tells, while the goroutine sleeps, whether the Out before the sleep
\* returned an error (the code discards it).
Spawned == [pc |-> "start", state |-> "High", err |-> FALSE]

LoopStates ==
    {Spawned}
        \cup [pc : {"check", "out"}, state : Levels, err : {FALSE}]
        \cup [pc : {"sleep"}, state : Levels, err : BOOLEAN]

Flip(state) == IF state = "High" THEN "Low" ELSE "High"

Add(B, l) == B (+) SetToBag({l})
Remove(B, l) == B (-) SetToBag({l})
NumLoops(c) == BagCardinality(loops[c])

RECURSIVE SumLoops(_)
SumLoops(S) ==
    IF S = {} THEN 0
    ELSE LET c == CHOOSE x \in S : TRUE
         IN  NumLoops(c) + SumLoops(S \ {c})

\* Number of goroutines of Cycle alive in the process.
Live == SumLoops(Controllers)

\* No write since the controller became running.
NoRun == [level |-> "None", sleeps |-> 0]

\* run[c] after a write of level s, and after a sleep has ended.
Written(s) == [level |-> s, sleeps |-> 0]
Slept(w) == [w EXCEPT !.sleeps = IF @ < 2 THEN @ + 1 ELSE @]

NoCall == [op |-> "none", c |-> "none", idle |-> FALSE]

\* Idle: not running and no loop alive.
Idle(c) == ~Running[c] /\ loops[c] = EmptyBag

---------------------------------------------------------------------------
(* PinCycle.Cycle and PinCycle.Stop, as seen by their caller *)

\* A Cycle that returns only once no goroutine of c is still waiting to run
\* its first statement.
CycleWaits(c) ==
    /\ ~BagIn(Spawned, loops[c])
    /\ loops' = [loops EXCEPT ![c] = Add(@, Spawned)]
    /\ lastCall' = [lastCall EXCEPT ![c] = "Cycle"]
    /\ last' = [op |-> "Cycle", c |-> c, idle |-> Idle(c)]
    /\ UNCHANGED <<Running, pin, run>>

\* Cycle(): "go func() {...}()" and return.  The caller writes nothing.
Cycle(c) ==
    /\ loops' = [loops EXCEPT ![c] = Add(@, Spawned)]
    /\ lastCall' = [lastCall EXCEPT ![c] = "Cycle"]
    /\ last' = [op |-> "Cycle", c |-> c, idle |-> Idle(c)]
    /\ UNCHANGED <<Running, pin, run>>

\* A Stop that clears one flag shared by all controllers.
StopShared(c) ==
    /\ Running' = [d \in Controllers |-> FALSE]
    /\ lastCall' = [lastCall EXCEPT ![c] = "Stop"]
    /\ last' = [op |-> "Stop", c |-> c, idle |-> Idle(c)]
    /\ UNCHANGED <<loops, pin, run>>

\* A Stop that toggles the flag instead of clearing it.
StopToggle(c) ==
    /\ Running' = [Running EXCEPT ![c] = ~@]
    /\ lastCall' = [lastCall EXCEPT ![c] = "Stop"]
    /\ last' = [op |-> "Stop", c |-> c, idle |-> Idle(c)]
    /\ UNCHANGED <<loops, pin, run>>

\* Stop(): f.Running = false.
Stop(c) ==
    /\ Running' = [Running EXCEPT ![c] = FALSE]
    /\ lastCall' = [lastCall EXCEPT ![c] = "Stop"]
    /\ last' = [op |-> "Stop", c |-> c, idle |-> Idle(c)]
    /\ UNCHANGED <<loops, pin, run>>

---------------------------------------------------------------------------
(* The goroutine of Cycle, one shared access per step *)

\* f.Running = true; state := gpio.High
LoopStart(c) ==
    /\ BagIn(Spawned, loops[c])
    /\ Running' = [Running EXCEPT ![c] = TRUE]
    /\ loops' = [loops EXCEPT
                   ![c] = Add(Remove(@, Spawned),
                              [pc |-> "check", state |-> "High",
                               err |-> FALSE])]
    /\ run' = [run EXCEPT ![c] = IF Running[c] THEN @ ELSE NoRun]
    /\ UNCHANGED <<pin, lastCall, last>>

\* for f.Running { ... }: enter the body, or leave the loop and end.
LoopCheck(c, l) ==
    /\ l.pc = "check"
    /\ BagIn(l, loops[c])
    /\ loops' = [loops EXCEPT
                   ![c] = IF Running[c]
                            THEN Add(Remove(@, l), [l EXCEPT !.pc = "out"])
                            ELSE Remove(@, l)]
    /\ UNCHANGED <<Running, pin, lastCall, last, run>>

\* f.Pin.Out(state)
LoopOut(c, l) ==
    /\ l.pc = "out"
    /\ BagIn(l, loops[c])
    /\ pin' = [pin EXCEPT ![c] = l.state]
    /\ run' = [run EXCEPT ![c] = Written(l.state)]
    /\ loops' = [loops EXCEPT
                   ![c] = Add(Remove(@, l), [l EXCEPT !.pc = "sleep"])]
    /\ UNCHANGED <<Running, lastCall, last>>

\* A loop that returns when Out reports an error.
LoopOutAbort(c, l) ==
    /\ l.pc = "out"
    /\ BagIn(l, loops[c])
    /\ pin' = [pin EXCEPT ![c] = l.state]
    /\ run' = [run EXCEPT ![c] = Written(l.state)]
    /\ loops' = [loops EXCEPT ![c] = Remove(@, l)]
    /\ UNCHANGED <<Running, lastCall, last>>

\* f.Pin.Out(state) returns an error: the level was commanded, the result
\* is discarded and the goroutine goes on to sleep.
LoopOutFail(c, l) ==
    /\ l.pc = "out"
    /\ BagIn(l, loops[c])
    /\ pin' = [pin EXCEPT ![c] = l.state]
    /\ run' = [run EXCEPT ![c] = Written(l.state)]
    /\ loops' = [loops EXCEPT
                   ![c] = Add(Remove(@, l),
                              [l EXCEPT !.pc = "sleep", !.err = TRUE])]
    /\ UNCHANGED <<Running, lastCall, last>>

\* A loop that never flips the state.
LoopWakeNoFlip(c, l) ==
    /\ l.pc = "sleep"
    /\ BagIn(l, loops[c])
    /\ loops' = [loops EXCEPT
                   ![c] = Add(Remove(@, l),
                              [pc |-> "check", state |-> l.state,
                               err |-> FALSE])]
    /\ run' = [run EXCEPT ![c] = Slept(@)]
    /\ UNCHANGED <<Running, pin, lastCall, last>>

\* time.Sleep(...) returns; the state is flipped; back to the loop test.
LoopWake(c, l) ==
    /\ l.pc = "sleep"
    /\ BagIn(l, loops[c])
    /\ loops' = [loops EXCEPT
                   ![c] = Add(Remove(@, l),
                              [pc |-> "check", state |-> Flip(l.state),
                               err |-> FALSE])]
    /\ run' = [run EXCEPT ![c] = Slept(@)]
    /\ UNCHANGED <<Running, pin, lastCall, last>>

---------------------------------------------------------------------------
(* The handler of "/" *)

\* A query string, parsed: the sequence of its <<key, value>> pairs.
Queries ==
    { <<>>,
      << <<"mode", "on">> >>,
      << <<"mode", "off">> >>,
      << <<"mode", "ON">> >>,
      << <<"mode", "">> >>,
      << <<"led", "on">> >>,
      << <<"mode", "off">>, <<"mode", "on">> >> }

\* r.URL.Query().Get(key): the first value of key, "" when there is none.
Get(q, key) ==
    LET hits == {k \in 1..Len(q) : q[k][1] = key}
    IN  IF hits = {} THEN ""
        ELSE q[CHOOSE k \in hits : \A j \in hits : k <= j][2]

\* A handler that starts on everything but "off".
ModeNotOff(q) == Get(q, "mode") # "off"

\* The branch the handler takes.
ModeOn(q) == Get(q, "mode") = "on"

\* status is the status code of the response, 0 while there is none.
NoRequest ==
    [pc |-> "idle", query |-> <<>>, i |-> 1, log |-> <<>>, status |-> 0]

\* The handler goroutines.  One client sends its requests one after the
\* other, as the curl calls of the walkthrough do.
Slots == {1}

\* The server hands a request to a new handler goroutine.
Accept(r, q) ==
    /\ served < MaxRequests
    /\ reqs[r].pc \in {"idle", "done"}
    /\ reqs' = [reqs EXCEPT
                  ![r] = [pc |-> "calls", query |-> q, i |-> 1, log |-> <<>>,
                          status |-> 0]]
    /\ served' = served + 1
    /\ UNCHANGED <<Running, loops, pin, lastCall, last, steps, run, rest>>

\* A handler whose second statement names p14 again instead of p15.
HandlerCallRepeat(r) ==
    /\ reqs[r].pc = "calls"
    /\ reqs[r].i <= Len(Registry)
    /\ LET c  == Registry[IF reqs[r].i = 2 THEN 1 ELSE reqs[r].i]
           op == IF ModeOn(reqs[r].query) THEN "Cycle" ELSE "Stop"
       IN  /\ IF op = "Cycle" THEN Cycle(c) ELSE Stop(c)
           /\ reqs' = [reqs EXCEPT
                         ![r].i = @ + 1,
                         ![r].log = Append(@, [op |-> op, c |-> c])]
    /\ UNCHANGED <<served, steps, rest>>

\* The next statement of the handler's branch: p.Cycle() or p.Stop() on
\* the i-th controller.
HandlerCall(r) ==
    /\ reqs[r].pc = "calls"
    /\ reqs[r].i <= Len(Registry)
    /\ LET c  == Registry[reqs[r].i]
           op == IF ModeOn(reqs[r].query) THEN "Cycle" ELSE "Stop"
       IN  /\ IF op = "Cycle" THEN Cycle(c) ELSE Stop(c)
           /\ reqs' = [reqs EXCEPT
                         ![r].i = @ + 1,
                         ![r].log = Append(@, [op |-> op, c |-> c])]
    /\ UNCHANGED <<served, steps, rest>>

\* A handler that answers 400 to a mode it does not know.
HandlerReturnStrict(r) ==
    /\ reqs[r].pc = "calls"
    /\ reqs[r].i > Len(Registry)
    /\ reqs' = [reqs EXCEPT
                  ![r].pc = "done",
                  ![r].status = IF Get(reqs[r].query, "mode") \in {"on", "off"}
                                  THEN 200 ELSE 400]
    /\ UNCHANGED <<Running, loops, pin, lastCall, last, served, steps, run,
                   rest>>

\* The handler function returns without having touched rw: net/http
\* answers 200 OK.
HandlerReturn(r) ==
    /\ reqs[r].pc = "calls"
    /\ reqs[r].i > Len(Registry)
    /\ reqs' = [reqs EXCEPT ![r].pc = "done", ![r].status = 200]
    /\ UNCHANGED <<Running, loops, pin, lastCall, last, served, steps, run,
                   rest>>

---------------------------------------------------------------------------
(* The program under direct calls: main constructs the six PinCycle values *)
(* with Running false and callers invoke Cycle and Stop on them.           *)

\* No signal handling set up, no signal sent.
NoSig == [notify |-> FALSE, ch |-> <<>>, got |-> "none", sent |-> 0]

\* The PinCycle values as constructed, nothing called or written yet.
Constructed ==
    /\ Running = [c \in Controllers |-> FALSE]
    /\ loops = [c \in Controllers |-> EmptyBag]
    /\ pin = [c \in Controllers |-> "None"]
    /\ lastCall = [c \in Controllers |-> "none"]
    /\ last = NoCall
    /\ reqs = [r \in Slots |-> NoRequest]
    /\ served = 0
    /\ steps = 0
    /\ run = [c \in Controllers |-> NoRun]
    /\ board = <<>>
    /\ sig = NoSig
    /\ dur = <<>>

\* The HTTP-controlled program once main has reached ListenAndServe.
Init ==
    /\ Constructed
    /\ main = [prog |-> "http", pc |-> "serving", initErr |-> FALSE]

CallCycle ==
    \E c \in Driven :
        Live < MaxLive /\ Cycle(c) /\ UNCHANGED <<reqs, served, steps, rest>>

CallStop == \E c \in Driven : Stop(c) /\ UNCHANGED <<reqs, served, steps, rest>>

StartLoop ==
    \E c \in Controllers : LoopStart(c) /\ UNCHANGED <<reqs, served, steps, rest>>

CheckLoop ==
    \E c \in Controllers : \E l \in LoopStates :
        LoopCheck(c, l) /\ UNCHANGED <<reqs, served, steps, rest>>

OutLoop ==
    \E c \in Controllers : \E l \in LoopStates :
        LoopOut(c, l) /\ UNCHANGED <<reqs, served, steps, rest>>

FailOutLoop ==
    \E c \in Controllers : \E l \in LoopStates :
        LoopOutFail(c, l) /\ UNCHANGED <<reqs, served, steps, rest>>

WakeLoop ==
    \E c \in Controllers : \E l \in LoopStates :
        LoopWake(c, l) /\ UNCHANGED <<reqs, served, steps, rest>>

Next ==
    \/ CallCycle \/ CallStop
    \/ StartLoop \/ CheckLoop \/ OutLoop \/ FailOutLoop \/ WakeLoop

Spec == Init /\ [][Next]_vars

---------------------------------------------------------------------------
(* The program behind its HTTP server: requests arrive, their handlers run *)
(* concurrently with each other and with the goroutines they spawn.        *)

Budget == steps < MaxLoopSteps /\ steps' = steps + 1

ServeAccept == \E r \in Slots : \E q \in Queries : Accept(r, q)

ServeCall == \E r \in Slots : HandlerCall(r)

ServeReturn == \E r \in Slots : HandlerReturn(r)

ServeStartLoop ==
    \E c \in Controllers : Budget /\ LoopStart(c) /\ UNCHANGED <<reqs, served, rest>>

ServeCheckLoop ==
    \E c \in Controllers : \E l \in LoopStates :
        Budget /\ LoopCheck(c, l) /\ UNCHANGED <<reqs, served, rest>>

ServeOutLoop ==
    \E c \in Controllers : \E l \in LoopStates :
        Budget /\ LoopOut(c, l) /\ UNCHANGED <<reqs, served, rest>>

ServeFailOutLoop ==
    \E c \in Controllers : \E l \in LoopStates :
        Budget /\ LoopOutFail(c, l) /\ UNCHANGED <<reqs, served, rest>>

ServeWakeLoop ==
    \E c \in Controllers : \E l \in LoopStates :
        Budget /\ LoopWake(c, l) /\ UNCHANGED <<reqs, served, rest>>

NextHttp ==
    \/ ServeAccept \/ ServeCall \/ ServeReturn
    \/ ServeStartLoop \/ ServeCheckLoop \/ ServeOutLoop
    \/ ServeFailOutLoop \/ ServeWakeLoop

SpecHttp == Init /\ [][NextHttp]_vars

\* The two requests of the walkthrough:
\* curl "http://localhost:9000/?mode=on" and ...?mode=off
OnQuery == << <<"mode", "on">> >>
OffQuery == << <<"mode", "off">> >>

CurlAccept == \E r \in Slots : \E q \in {OnQuery, OffQuery} : Accept(r, q)

NextCurl ==
    \/ CurlAccept \/ ServeCall \/ ServeReturn
    \/ ServeStartLoop \/ ServeCheckLoop \/ ServeOutLoop
    \/ ServeFailOutLoop \/ ServeWakeLoop

\* The goroutine net/http runs the handler in is scheduled; nothing is
\* assumed about the goroutines of Cycle.
FairHttp ==
    /\ Init /\ [][NextCurl]_vars
    /\ WF_vars(ServeCall) /\ WF_vars(ServeReturn)

---------------------------------------------------------------------------
(* The program under direct calls, with every goroutine that can run       *)
(* eventually running: the Go scheduler pre-empts, and a sleep ends.       *)

LoopStep(c, l) ==
    /\ \/ l = Spawned /\ LoopStart(c)
       \/ LoopCheck(c, l)
       \/ LoopOut(c, l)
       \/ LoopOutFail(c, l)
       \/ LoopWake(c, l)
    /\ UNCHANGED <<reqs, served, steps, rest>>

Fairness == \A c \in Driven : \A l \in LoopStates : WF_vars(LoopStep(c, l))

FairSpec == Spec /\ Fairness

---------------------------------------------------------------------------
(* GET /?mode=on on the fresh registry, and no request after it: the       *)
(* handler and every goroutine it spawns are scheduled again and again.    *)

\* The first request arrives, and it is mode=on.
OnAccept == \E r \in Slots : served = 0 /\ Accept(r, OnQuery)

\* for f.Running { f.Pin.Out(state): the loop test and the write that
\* follows it, as one step. No Stop and no second Cycle runs here, so the
\* goroutine reads the flag it has set itself and the test commutes with
\* every step of the other goroutines. The result of Out is discarded.
LoopIterate(c, l) ==
    /\ l.pc = "check"
    /\ BagIn(l, loops[c])
    /\ IF Running[c]
         THEN /\ pin' = [pin EXCEPT ![c] = l.state]
              /\ run' = [run EXCEPT ![c] = Written(l.state)]
              /\ loops' = [loops EXCEPT
                             ![c] = Add(Remove(@, l),
                                        [l EXCEPT !.pc = "sleep"])]
         ELSE /\ loops' = [loops EXCEPT ![c] = Remove(@, l)]
              /\ UNCHANGED <<pin, run>>
    /\ UNCHANGED <<Running, lastCall, last>>

\* Some goroutine of c takes its next step.
Toggle(c) ==
    /\ \/ LoopStart(c)
       \/ \E l \in BagToSet(loops[c]) : LoopIterate(c, l)
       \/ \E l \in BagToSet(loops[c]) : LoopWake(c, l)
    /\ UNCHANGED <<reqs, served, steps, rest>>

ToggleAny == \E c \in Controllers : Toggle(c)

NextOn == OnAccept \/ ServeCall \/ ServeReturn \/ ToggleAny

SpecOn ==
    /\ Init /\ [][NextOn]_vars
    /\ WF_vars(ServeCall) /\ WF_vars(ServeReturn)
    /\ \A c \in Controllers : WF_vars(Toggle(c))

---------------------------------------------------------------------------
(* func main of the program variants:                                      *)
(*   "single": Init, rpi.P1_15.Out(gpio.High), wait for a signal           *)
(*   "http"  : Init, the six PinCycle values, HandleFunc, ListenAndServe   *)
(*   "fixed" : Init, p15.Cycle() with time.Sleep(500 * time.Millisecond)   *)
(*   "random": Init, p15.Cycle() with the random sleep                     *)

\* make(chan os.Signal, 1)
SigChanCap == 1

Signals == {"SIGINT", "SIGTERM", "SIGHUP"}

Booting(progs) ==
    {[prog |-> p, pc |-> "init", initErr |-> FALSE] : p \in progs}

Alive == main.pc \notin {"fatal", "exit", "killed"}

\* The statement of main that follows a successful host.Init().
AfterInit(prog) ==
    CASE prog = "single" -> "out"
      [] prog = "http"   -> "handle"
      [] OTHER           -> "cycle"

\* A main that goes on when host.Init() fails.
HostInitIgnore ==
    /\ main.pc = "init"
    /\ \E ok \in BOOLEAN :
          main' = [main EXCEPT !.pc = AfterInit(main.prog), !.initErr = ~ok]
    /\ UNCHANGED <<Running, loops, pin, lastCall, last, reqs, served, steps,
                   run, board, sig, dur>>

\* if _, err := host.Init(); err != nil { log.Fatal(err) }
HostInit ==
    /\ main.pc = "init"
    /\ \E ok \in BOOLEAN :
          main' = IF ok
                    THEN [main EXCEPT !.pc = AfterInit(main.prog)]
                    ELSE [main EXCEPT !.pc = "fatal", !.initErr = TRUE]
    /\ UNCHANGED <<Running, loops, pin, lastCall, last, reqs, served, steps,
                   run, board, sig, dur>>

\* rpi.P1_15.Out(gpio.High)
MainOut ==
    /\ main.pc = "out"
    /\ board' = Append(board, "High")
    /\ main' = [main EXCEPT !.pc = "notify"]
    /\ UNCHANGED <<Running, loops, pin, lastCall, last, reqs, served, steps,
                   run, sig, dur>>

\* c := make(chan os.Signal, 1); signal.Notify(c)
MainNotify ==
    /\ main.pc = "notify"
    /\ sig' = [sig EXCEPT !.notify = TRUE]
    /\ main' = [main EXCEPT !.pc = "wait"]
    /\ UNCHANGED <<Running, loops, pin, lastCall, last, reqs, served, steps,
                   run, board, dur>>

\* A main that does not wait on the channel.
MainReturn ==
    /\ main.pc = "wait"
    /\ main' = [main EXCEPT !.pc = "exit"]
    /\ UNCHANGED <<Running, loops, pin, lastCall, last, reqs, served, steps,
                   run, board, sig, dur>>

\* <-c, then main returns.
MainRecv ==
    /\ main.pc = "wait"
    /\ sig.ch # <<>>
    /\ sig' = [sig EXCEPT !.got = Head(sig.ch), !.ch = Tail(sig.ch)]
    /\ main' = [main EXCEPT !.pc = "exit"]
    /\ UNCHANGED <<Running, loops, pin, lastCall, last, reqs, served, steps,
                   run, board, dur>>

\* A signal reaches the single-pin process: relayed to c without blocking
\* once Notify has run (dropped when c is full), fatal before.
Deliver(s) ==
    /\ main.prog = "single"
    /\ Alive
    /\ sig.sent < MaxSignals
    /\ IF sig.notify
         THEN /\ sig' = [sig EXCEPT
                           !.sent = @ + 1,
                           !.ch = IF Len(@) < SigChanCap
                                    THEN Append(@, s) ELSE @]
              /\ main' = main
         ELSE /\ sig' = [sig EXCEPT !.sent = @ + 1]
              /\ main' = [main EXCEPT !.pc = "killed"]
    /\ UNCHANGED <<Running, loops, pin, lastCall, last, reqs, served, steps,
                   run, board, dur>>

\* A main that still calls p14.Cycle() itself before it registers the
\* handler.
MainHandleCycle ==
    /\ main.pc = "handle"
    /\ Cycle("p14")
    /\ main' = [main EXCEPT !.pc = "listen"]
    /\ UNCHANGED <<reqs, served, steps, board, sig, dur>>

\* p14 := PinCycle{...} ... p25; http.HandleFunc("/", ...)
MainHandle ==
    /\ main.pc = "handle"
    /\ main' = [main EXCEPT !.pc = "listen"]
    /\ UNCHANGED <<Running, loops, pin, lastCall, last, reqs, served, steps,
                   run, board, sig, dur>>

\* http.ListenAndServe(":9000", nil)
MainListen ==
    /\ main.pc = "listen"
    /\ main' = [main EXCEPT !.pc = "serving"]
    /\ UNCHANGED <<Running, loops, pin, lastCall, last, reqs, served, steps,
                   run, board, sig, dur>>

\* p15 := PinCycle{...}; p15.Cycle(); then main spins in "for {}".
MainCycle ==
    /\ main.pc = "cycle"
    /\ Cycle("p15")
    /\ main' = [main EXCEPT !.pc = "spin"]
    /\ UNCHANGED <<reqs, served, steps, board, sig, dur>>

SendSignal == \E s \in Signals : Deliver(s)

Serving == main.pc = "serving" /\ NextCurl

InitMain == Constructed /\ main \in Booting({"single", "http"})

NextMain ==
    \/ HostInit \/ MainOut \/ MainNotify \/ MainRecv \/ SendSignal
    \/ MainHandle \/ MainListen \/ Serving

SpecMain == InitMain /\ [][NextMain]_vars

---------------------------------------------------------------------------
(* The sleep of the loop, in the variants that call p15.Cycle() from main  *)

\* time.Sleep(500 * time.Millisecond)
FixedSleep == 500

\* rand.Intn(1000-300) + 300
SleepMax == 1000
SleepMin == 300

\* rand.Intn(n): some integer of [0, n)
Intn(n) == 0..(n - 1)

\* A sleep of rand.Intn(1000) milliseconds.
SleepDurationNoMin(r) == r

\* sleepDuration, for the value r that rand.Intn(1000-300) returned
SleepDuration(r) == r + SleepMin

\* The sleep ends after the duration the variant chose for it.
TimedWake ==
    \E c \in Controllers : \E l \in LoopStates :
        /\ LoopWake(c, l)
        /\ \E r \in Intn(SleepMax - SleepMin) :
              dur' = IF main.prog = "fixed"
                       THEN <<FixedSleep>>
                       ELSE <<SleepDuration(r)>>
        /\ UNCHANGED <<reqs, served, steps, main, board, sig>>

InitSleep == Constructed /\ main \in Booting({"fixed", "random"})

NextSleep ==
    \/ HostInit \/ MainCycle
    \/ StartLoop \/ CheckLoop \/ OutLoop \/ FailOutLoop \/ TimedWake

SpecSleep == InitSleep /\ [][NextSleep]_vars

---------------------------------------------------------------------------
(* Claims *)

\* C1: in every reachable state a controller has at most one background
\* loop alive, whatever Cycle and Stop calls were made on it.
C1_AtMostOneLoop == \A c \in Controllers : NumLoops(c) <= 1

\* C2: a Cycle call on a controller whose last call was Cycle and that has
\* one loop is a no-op: exactly one loop is alive afterwards.
C2_SecondStartNoOp ==
    [][\A c \in Controllers :
          (lastCall[c] = "Cycle" /\ NumLoops(c) = 1 /\ Cycle(c))
              => BagCardinality(loops'[c]) = 1]_vars

\* C3: when Stop was the last call on a controller and all its loops have
\* ended, the level last commanded on its pin is Low.
C3_LowAfterStop ==
    \A c \in Controllers :
        (lastCall[c] = "Stop" /\ loops[c] = EmptyBag /\ pin[c] # "None")
            => pin[c] = "Low"

\* C4: a Stop call leaves the running flag false and the pin commanded Low.
C4_StopWritesLow ==
    [][\A c \in Controllers :
          Stop(c) => (Running'[c] = FALSE /\ pin'[c] = "Low")]_vars

\* C5: after a Stop that no Cycle follows, every loop of the controller
\* eventually ends, wherever the spawned goroutines were when Stop ran.
C5_LoopsTerminate ==
    \A c \in Driven :
        (lastCall[c] = "Stop") ~> (loops[c] = EmptyBag \/ lastCall[c] = "Cycle")

\* C7: when Cycle returns on an idle controller the running flag is true,
\* and while Stop is the last call made the flag stays false.
C7_StartSetsRunning ==
    [][\A c \in Controllers :
          /\ (Idle(c) /\ Cycle(c)) => Running'[c]
          /\ (lastCall[c] = "Stop" /\ lastCall'[c] = "Stop") => ~Running'[c]]_vars

\* C8: a Cycle or Stop call on one controller leaves the running flag, the
\* loops and the pin level of every other controller unchanged.
C8_Independence ==
    [][\A c \in Controllers :
          (Cycle(c) \/ Stop(c)) =>
              \A d \in Controllers \ {c} :
                  /\ Running'[d] = Running[d]
                  /\ loops'[d] = loops[d]
                  /\ pin'[d] = pin[d]]_vars

\* A Stop on one controller has just returned while another controller is
\* running, with a loop alive and its pin High.
C8_Witness ==
    \E c \in Driven : \E d \in Driven \ {c} :
        /\ last.op = "Stop" /\ last.c = c
        /\ Running[d] /\ NumLoops(d) > 0 /\ pin[d] = "High"

\* C9: Stop on an idle controller leaves it idle, spawns no loop and leaves
\* the pin level as it was, or Low.
C9_StopIdempotent ==
    [][\A c \in Controllers :
          (Idle(c) /\ Stop(c)) =>
              /\ ~Running'[c]
              /\ loops'[c] = EmptyBag
              /\ pin'[c] \in {pin[c], "Low"}]_vars

\* Stop has just been called on a controller that was idle, after an
\* earlier run left its pin High.
C9_Witness ==
    \E c \in Driven :
        /\ last = [op |-> "Stop", c |-> c, idle |-> TRUE]
        /\ Idle(c) /\ pin[c] = "High"

\* The first mode pair of the query carries exactly the value "on".
ExactlyOn(q) ==
    \E k \in 1..Len(q) :
        /\ q[k] = <<"mode", "on">>
        /\ \A j \in 1..(k - 1) : q[j][1] # "mode"

\* C6: the calls a handler makes are Cycle calls if and only if the mode
\* parameter of its request is exactly "on"; otherwise, and when there is
\* no mode parameter, they are Stop calls.
C6_ModeDecides ==
    \A r \in Slots :
        \A k \in 1..Len(reqs[r].log) :
            /\ reqs[r].log[k].op \in {"Cycle", "Stop"}
            /\ reqs[r].log[k].op = "Cycle" <=> ExactlyOn(reqs[r].query)

\* A request without a query string has been handled: six Stop calls.
C6_Witness ==
    \E r \in Slots :
        /\ reqs[r].pc = "done"
        /\ reqs[r].query = <<>>
        /\ Len(reqs[r].log) = 6
        /\ \A k \in 1..6 : reqs[r].log[k].op = "Stop"

\* C10: a handler calls the controllers p14, p15, p18, p23, p24, p25 in
\* that order, each once, all with Cycle or all with Stop, and has called
\* all six when it returns.
C10_AllInOrder ==
    \A r \in Slots :
        LET log == reqs[r].log
            op  == IF ModeOn(reqs[r].query) THEN "Cycle" ELSE "Stop"
            all == <<"p14", "p15", "p18", "p23", "p24", "p25">>
        IN  /\ Len(log) <= 6
            /\ \A k \in 1..Len(log) : log[k] = [op |-> op, c |-> all[k]]
            /\ reqs[r].pc = "done" => Len(log) = 6

\* A mode=on request has been handled to its end.
C10_Witness ==
    \E r \in Slots :
        /\ reqs[r].pc = "done"
        /\ ModeOn(reqs[r].query)
        /\ Len(reqs[r].log) = 6
        /\ \A c \in Controllers : lastCall[c] = "Cycle"

\* C13: a write that fails inside a loop leaves the running flag as it
\* was, ends no goroutine, leaves the failing goroutine asleep before its
\* next iteration and changes nothing of any other controller.
C13_FailedWriteContinues ==
    [][\A c \in Controllers : \A l \in BagToSet(loops[c]) :
          LoopOutFail(c, l) =>
              /\ Running' = Running
              /\ BagCardinality(loops'[c]) = NumLoops(c)
              /\ BagIn([pc |-> "sleep", state |-> l.state, err |-> TRUE],
                       loops'[c])
              /\ \A d \in Controllers \ {c} :
                     loops'[d] = loops[d] /\ pin'[d] = pin[d]]_vars

\* A goroutine whose write failed has slept and gone on to its next
\* write, while the other driven controller is asleep after a failed write.
C13_Witness ==
    \E c \in Driven : \E d \in Driven \ {c} :
        /\ BagIn([pc |-> "sleep", state |-> "High", err |-> TRUE], loops[c])
        /\ Running[c]
        /\ BagIn([pc |-> "out", state |-> "Low", err |-> FALSE], loops[d])

\* C18: while a controller is running, each level commanded on its pin is
\* High if it is the first since it became running and the opposite of the
\* previous one otherwise, and exactly one sleep has ended in between.
C18_WritesAlternate ==
    [][\A c \in Controllers : \A l \in LoopStates :
          (Running[c] /\ (LoopOut(c, l) \/ LoopOutFail(c, l))) =>
              IF run[c].level = "None"
                THEN l.state = "High"
                ELSE l.state = Flip(run[c].level) /\ run[c].sleeps = 1]_vars

\* C19: the running flag of a controller changes only in a Cycle or Stop
\* call on that controller, never in a step of its background loop.
C19_FlagWrittenByCaller ==
    [][\A c \in Controllers :
          Running'[c] # Running[c] => (Cycle(c) \/ Stop(c))]_vars

\* C12: once host.Init has failed the process is gone: no level was or is
\* commanded on any pin, no goroutine of Cycle exists, the server never
\* listens and no request is handled.
C12_FailedInitAborts ==
    main.initErr =>
        /\ main.pc = "fatal"
        /\ board = <<>>
        /\ \A c \in Controllers : pin[c] = "None" /\ loops[c] = EmptyBag
        /\ served = 0
        /\ \A r \in Slots : reqs[r] = NoRequest

\* host.Init has failed in the HTTP-controlled program.
C12_Witness == main.initErr /\ main.prog = "http" /\ main.pc = "fatal"

\* C16: a handler that has returned has answered with status 200, whatever
\* its mode and whatever the controllers were doing.
C16_Status200 ==
    \A r \in Slots :
        /\ reqs[r].status \in {0, 200}
        /\ reqs[r].pc = "done" => reqs[r].status = 200

\* A request with a mode the handler does not know has been answered while
\* a controller was running.
C16_Witness ==
    \E r \in Slots :
        /\ reqs[r].pc = "done"
        /\ reqs[r].query = << <<"mode", "ON">> >>
        /\ reqs[r].status = 200
        /\ \E c \in Controllers : Running[c]

\* C17: in the single-pin program P1_15 is never commanded anything but one
\* High, that High has been commanded once main sets up or waits for
\* signals, and the process ends only after a signal: main returns with
\* the signal it received, or the signal ended the process before Notify.
C17_SinglePin ==
    main.prog = "single" =>
        /\ board \in {<<>>, <<"High">>}
        /\ main.pc \in {"notify", "wait", "exit"} => board = <<"High">>
        /\ main.pc = "exit" => sig.got \in Signals
        /\ main.pc = "killed" => sig.sent > 0
        /\ main.pc = "fatal" => main.initErr

\* The single-pin program has commanded High, blocked, received SIGTERM and
\* ended.
C17_Witness ==
    /\ main.prog = "single"
    /\ main.pc = "exit"
    /\ board = <<"High">>
    /\ sig.got = "SIGTERM"

\* C20: a sleep of the random variant lasts d milliseconds with
\* 300 <= d < 1000, a sleep of the fixed variant 500 milliseconds.
C20_SleepBounds ==
    dur # <<>> =>
        /\ main.prog = "random" => (dur[1] >= 300 /\ dur[1] < 1000)
        /\ main.prog = "fixed" => dur[1] = 500

\* The random variant has slept its longest sleep.
C20_Witness == main.prog = "random" /\ dur = <<999>>

\* C15: under fair scheduling of the handler alone, a handler that runs the
\* mode=on branch returns, whatever the goroutines of Cycle do or fail to
\* do.
C15_OnHandlerCompletes ==
    \A r \in Slots :
        (reqs[r].pc = "calls" /\ ModeOn(reqs[r].query))
            ~> (reqs[r].pc = "done")

\* A mode=on handler has returned while none of the six goroutines it
\* spawned has run a statement.
C15_Witness ==
    \E r \in Slots :
        /\ reqs[r].pc = "done"
        /\ ModeOn(reqs[r].query)
        /\ \A c \in Controllers : BagIn(Spawned, loops[c]) /\ ~Running[c]

\* C14: once the mode=on request on the fresh registry has been handled,
\* and with no request after it, under fair scheduling every one of the six
\* controllers has exactly one goroutine, its flag set, and its pin
\* commanded High again and again and Low again and again. (A request that
\* has been handled stays handled: "again and again, handled implies Q" is
\* "handled leads to Q".)
C14_AllKeepToggling ==
    \A c \in Controllers :
        /\ []<>((\E r \in Slots : reqs[r].pc = "done")
                  => (Running[c] /\ NumLoops(c) = 1 /\ pin[c] = "High"))
        /\ []<>((\E r \in Slots : reqs[r].pc = "done")
                  => (Running[c] /\ NumLoops(c) = 1 /\ pin[c] = "Low"))

\* The request has been handled and every controller is in its second
\* half-period: Low commanded after High.
C14_Witness ==
    /\ \E r \in Slots : reqs[r].pc = "done" /\ ModeOn(reqs[r].query)
    /\ \A c \in Controllers :
          Running[c] /\ pin[c] = "Low" /\ run[c] = Written("Low")

\* C21: Stop neither ends nor waits for a goroutine, and once Stop is the
\* last call made on a controller every loop test of its goroutines leaves
\* the loop: a goroutine that was asleep ends with no further write, one
\* that had passed the test issues the one write it was about to make.
C21_LoopLeavesAfterStop ==
    [][\A c \in Controllers :
          /\ Stop(c) => loops'[c] = loops[c]
          /\ \A l \in BagToSet(loops[c]) :
                (lastCall[c] = "Stop" /\ LoopCheck(c, l))
                    => loops'[c] = Remove(loops[c], l)]_vars

\* C22: the controllers are constructed with Running false, no goroutine
\* and no level commanded, and every step of the program other than a
\* p.Cycle() of a mode=on handler keeps them so: until the first mode=on
\* request is handled no loop exists and no pin is written.
C22_QuietUntilOn ==
    /\ \A c \in Controllers : Idle(c) /\ pin[c] = "None"
    /\ [][((\A c \in Controllers : Idle(c) /\ pin[c] = "None")
             /\ ~(\E r \in Slots : ModeOn(reqs[r].query) /\ HandlerCall(r)))
            => (\A c \in Controllers : Idle(c)' /\ pin'[c] = "None")]_vars

\* The HTTP program has started, a whole mode=off request has been handled
\* and no controller has a loop, a set flag or a commanded level.
C22_Witness ==
    /\ main.prog = "http"
    /\ \E r \in Slots : reqs[r].pc = "done" /\ reqs[r].query = OffQuery
    /\ \A c \in Controllers :
          Idle(c) /\ pin[c] = "None" /\ lastCall[c] = "Stop"

\* C23: the registry keeps the six controllers it was built with, no two
\* of them hold the same header pin, and the level commanded on a header
\* pin changes only by a write of a goroutine of the one controller that
\* holds it.
C23_OwnPinOnly ==
    /\ [](/\ DOMAIN Running = Controllers
          /\ DOMAIN loops = Controllers
          /\ DOMAIN pin = Controllers
          /\ \A c, d \in Controllers : c # d => Wire[c] # Wire[d])
    /\ [][\A p \in HeaderPins :
             (pin' # pin /\ Header(p)' # Header(p)) =>
                 \E c \in Controllers :
                     /\ Wire[c] = p
                     /\ \A d \in Controllers \ {c} : Wire[d] # p
                     /\ \E l \in BagToSet(loops[c]) :
                           LoopOut(c, l) \/ LoopOutFail(c, l)]_vars

\* Goroutines of p14 and of p15 have written: High is commanded on SO_51
\* and Low on SO_53.
C23_Witness ==
    /\ Header("SO_51") = {"High"}
    /\ Header("SO_53") = {"Low"}
    /\ NumLoops("p14") > 0 /\ NumLoops("p15") > 0

=============================================================================
